---- MODULE Spec2Model ----
(***************************************************************************)
(* NextWebServer (packages/next/src/server/web-server.ts).                 *)
(*                                                                         *)
(* Two request-scoped operations are modelled:                             *)
(*   handleCatchallRenderRequest  (specification Spec)                     *)
(*   sendRenderResult             (specification SpecSend)                 *)
(*                                                                         *)
(* A string that is a URL path is a sequence of tokens: the token "/" is   *)
(* the separator and every other token is one path segment, so             *)
(* "/blog/[slug]/" is <<"/", "blog", "/", "[slug]", "/">> and "" is << >>. *)
(* A query mapping is a function from the keys that are present to their   *)
(* string values; `delete query.k` removes k from the domain.              *)
(***************************************************************************)
EXTENDS Integers, Sequences, FiniteSets, TLC

VARIABLES
    \* ---- handleCatchallRenderRequest ----
    pc,                \* position in handleCatchallRenderRequest
    parsedUrl,         \* the argument as it was on entry: [pathname, query]
    normalizedPage,    \* serverOptions.webServerConfig.pathname
    i18nProvider,      \* TRUE when this.i18nProvider is configured
    reqUrlKeys,        \* query keys carried by req.url
    pathname,          \* local `pathname`
    query,             \* the object `query` (= parsedUrl.query, mutated in place)
    bubbleNoFallback,  \* local `bubbleNoFallback`
    renderCalls,       \* arguments of every this.render(...) call, in order
    rendered,          \* how the awaited render settled
    outcome,           \* what the call ended with: a result or a raised error
    \* ---- sendRenderResult ----
    spc,               \* position in sendRenderResult
    options,           \* the `options` argument, with what options.result holds
    headers,           \* res: header name -> value, for the headers that are set
    resLog,            \* res: the calls made on it, in order
    resBody,           \* res: the payload given to res.body
    sent,              \* res: number of res.send() calls
    writer,            \* state of the writable side of res.transformStream
    closed,            \* state of the promise writer.closed
    wiring,            \* the reactions attached to writer.closed
    job,               \* the pending promise-reaction job, if any
    innerClose,        \* local `innerClose` ("" is undefined)
    producer,          \* state of the producer started by options.result.pipe
    chunksWritten,     \* chunks the sink has accepted
    closeCalls,        \* listener -> number of times it has been invoked
    onCloseRuns,       \* number of times onClose has run
    notified,          \* the listener onClose found registered when it ran
    unhandled,         \* TRUE once a rejection has no handler
    callBeforeClose,   \* the last target.on/off call made before onClose ran
    \* ---- renderHTML ----
    hpc,               \* position in renderHTML
    renderToHTML,      \* TRUE when webServerConfig.renderToHTML is configured
    htmlArgs,          \* the arguments `pathname` and `query`
    renderOpts,        \* the object `renderOpts` (mutated by Object.assign)
    renderToHTMLCalls, \* arguments of every renderToHTML(...) call, in order
    htmlOutcome,       \* "pending", "returned" or the error raised
    \* ---- getPrerenderManifest ----
    mpc,               \* position in getPrerenderManifest
    serverDev,         \* this.renderOpts.dev
    prerenderManifest, \* webServerConfig.prerenderManifest: [defined, value]
    manifestResult     \* what the call returned: [defined, value]

catchallVars == <<pc, parsedUrl, normalizedPage, i18nProvider, reqUrlKeys,
                  pathname, query, bubbleNoFallback, renderCalls, rendered, outcome>>

sendVars == <<spc, options, headers, resLog, resBody, sent, writer, closed, wiring,
              job, innerClose, producer, chunksWritten, closeCalls, onCloseRuns,
              notified, unhandled, callBeforeClose>>

htmlVars == <<hpc, renderToHTML, htmlArgs, renderOpts, renderToHTMLCalls, htmlOutcome>>

manifestVars == <<mpc, serverDev, prerenderManifest, manifestResult>>

vars == <<catchallVars, sendVars, htmlVars, manifestVars>>

----------------------------------------------------------------------------
(* Values *)

Undefined == <<"undefined">>   \* the JS value undefined, where a pathname is expected
NoOutcome == [kind |-> "pending", finished |-> FALSE, error |-> ""]

BubbleKey == "_nextBubbleNoFallback"
LocaleKey == "__nextLocale"

\* JS truthiness of a string.
Truthy(v) == v # ""

\* `delete q[k]`
Delete(q, k) == [x \in (DOMAIN q) \ {k} |-> q[x]]

\* `q[k] = v`
Assign(q, k, v) == [x \in (DOMAIN q) \cup {k} |-> IF x = k THEN v ELSE q[x]]

\* The segments that are dynamic parameters, and the parameter each names.
ParamSegments == {"[slug]"}
ParamName(seg) == IF seg = "[slug]" THEN "slug" ELSE seg

Locales == {"en"}

\* Inputs the requests are drawn from.
Pages ==
    { <<"/">>,
      <<"/", "about">>,
      <<"/", "blog", "/", "[slug]">>,
      <<"/", "[slug]">>,
      <<"/", "api", "/", "hello">>,
      <<"/", "api", "/", "[slug]">> }

IncomingPathnames ==
    Pages \cup
    { Undefined, << >>,
      <<"/", "about", "/">>,
      <<"/", "blog", "/", "[slug]", "/">>,
      <<"/", "blog", "/", "hello">>,
      <<"/", "blog", "/", "hello", "/">>,
      <<"/", "api", "/", "hello", "/">>,
      <<"/", "en", "/", "about">> }

SlugValues == {"hello", "en", "a/b"}
FlagValues == {"", "1"}

Queries ==
    UNION { [keys -> SlugValues \cup FlagValues] : keys \in SUBSET {"slug", BubbleKey} }

EntryQueries ==
    { q \in Queries :
        /\ ("slug" \in DOMAIN q => q["slug"] \in SlugValues)
        /\ (BubbleKey \in DOMAIN q => q[BubbleKey] \in FlagValues) }

ReqUrlKeySets == { {}, {"slug", "page"} }

----------------------------------------------------------------------------
(* Helpers imported by web-server.ts *)

\* removeTrailingSlash: route.replace(/\/$/, '') || '/'
removeTrailingSlash(route) ==
    LET n == Len(route)
        stripped == IF n > 0 /\ route[n] = "/" THEN SubSeq(route, 1, n - 1) ELSE route
    IN  IF stripped = << >> THEN <<"/">> ELSE stripped

\* isDynamicRoute: the route has a segment of the form [param]
isDynamicRoute(route) == \E i \in 1..Len(route) : route[i] \in ParamSegments

\* Object.keys(getNamedRouteRegex(route, false).routeKeys)
routeKeys(route) == { ParamName(route[i]) : i \in { j \in 1..Len(route) : route[j] \in ParamSegments } }

\* encodeURIComponent on the values of SlugValues
encodeURIComponent(v) == IF v = "a/b" THEN "a%2Fb" ELSE v

\* interpolateDynamicPath: every [param] segment is replaced by the encoded
\* value of the parameter in `params`, or by the empty string when the
\* parameter is absent or falsy.
RECURSIVE interpolateDynamicPath(_, _)
interpolateDynamicPath(route, params) ==
    IF route = << >> THEN << >>
    ELSE LET seg  == Head(route)
             rest == interpolateDynamicPath(Tail(route), params)
         IN  IF seg \in ParamSegments
             THEN IF ParamName(seg) \in DOMAIN params /\ Truthy(params[ParamName(seg)])
                  THEN <<encodeURIComponent(params[ParamName(seg)])>> \o rest
                  ELSE rest
             ELSE <<seg>> \o rest

\* normalizeVercelUrl(req, true, keys, true, routeRegex): the route's
\* parameter keys are dropped from the query string of req.url.
normalizeVercelUrl(urlKeys, keys) == urlKeys \ keys

\* isAPIRoute: value === '/api' || value.startsWith('/api/')
isAPIRoute(value) ==
    \/ value = <<"/", "api">>
    \/ Len(value) >= 3 /\ SubSeq(value, 1, 3) = <<"/", "api", "/">>

\* i18nProvider.analyze(pathname): the locale that prefixes the pathname, if
\* any ("" stands for undefined), and the pathname without that prefix.
analyze(p) ==
    IF /\ Len(p) >= 2
       /\ p[1] = "/"
       /\ p[2] \in Locales
       /\ (Len(p) = 2 \/ p[3] = "/")
    THEN [detectedLocale |-> p[2],
          pathname |-> IF Len(p) = 2 THEN <<"/">> ELSE SubSeq(p, 3, Len(p))]
    ELSE [detectedLocale |-> "", pathname |-> p]

----------------------------------------------------------------------------
(* handleCatchallRenderRequest *)

\* `pathname === undefined` in place of `!pathname`
NoPathnameUndefinedOnly(p) == p = Undefined

\* `!pathname`
NoPathname(p) == p = Undefined \/ p = << >>

\* Lines 146-165: the pathname that is rendered for an incoming pathname.
ResolvePathname(p, page, q) ==
    removeTrailingSlash(
        IF p # page
        THEN IF isDynamicRoute(page) THEN interpolateDynamicPath(page, q) ELSE page
        ELSE p)

\* Lines 151-160: what the resolution does to req.url.
ResolveReqUrl(p, page, urlKeys) ==
    IF p # page /\ isDynamicRoute(page)
    THEN normalizeVercelUrl(urlKeys, routeKeys(page))
    ELSE urlKeys

\* Lines 167-172: the locale step, on the query.
LocaleStep(p, q) ==
    IF Truthy(analyze(p).detectedLocale)
    THEN Assign(q, LocaleKey, analyze(p).detectedLocale)
    ELSE q

\* Line 174
ReadBubbleNoFallback(q) == BubbleKey \in DOMAIN q /\ Truthy(q[BubbleKey])

\* Lines 176-178 without the delete.
StripBubbleFlagNever(p, q) == q

\* Lines 176-178
StripBubbleFlag(p, q) == IF isAPIRoute(p) THEN Delete(q, BubbleKey) ELSE q

\* Lines 186-193 with `&& bubbleNoFallback` dropped from the test.
CaughtIgnoringFlag(err, bubble) ==
    IF err = "NoFallbackError"
    THEN [kind |-> "return", finished |-> FALSE, error |-> ""]
    ELSE [kind |-> "throw", finished |-> FALSE, error |-> err]

\* Lines 186-193 with `err instanceof NoFallbackError &&` dropped from the test.
CaughtAnyError(err, bubble) ==
    IF bubble
    THEN [kind |-> "return", finished |-> FALSE, error |-> ""]
    ELSE [kind |-> "throw", finished |-> FALSE, error |-> err]

\* Lines 186-193 with the render tried again after a bubbled NoFallbackError.
AfterCatchRetrying(err, bubble) ==
    IF err = "NoFallbackError" /\ bubble THEN "dispatch" ELSE "done"

\* Lines 186-193: where the call goes from the catch clause; both branches
\* leave it.
AfterCatch(err, bubble) == "done"

\* Lines 186-193: the catch clause.
Caught(err, bubble) ==
    IF err = "NoFallbackError" /\ bubble
    THEN [kind |-> "return", finished |-> FALSE, error |-> ""]
    ELSE [kind |-> "throw", finished |-> FALSE, error |-> err]

InitCatchall ==
    /\ pc = "entry"
    /\ parsedUrl \in [pathname : IncomingPathnames, query : EntryQueries]
    /\ normalizedPage \in Pages
    /\ i18nProvider \in BOOLEAN
    /\ reqUrlKeys \in ReqUrlKeySets
    /\ pathname = parsedUrl.pathname
    /\ query = parsedUrl.query
    /\ bubbleNoFallback = FALSE
    /\ renderCalls = << >>
    /\ rendered = "none"
    /\ outcome = NoOutcome

\* Lines 139-142: the pathname is missing.
RejectPathname ==
    /\ pc = "entry"
    /\ NoPathname(pathname)
    /\ outcome' = [kind |-> "throw", finished |-> FALSE, error |-> "pathname is undefined"]
    /\ pc' = "done"
    /\ UNCHANGED <<sendVars, htmlVars, manifestVars>>
    /\ UNCHANGED <<parsedUrl, normalizedPage, i18nProvider, reqUrlKeys, pathname,
                   query, bubbleNoFallback, renderCalls, rendered>>

\* Lines 139-165: resolution of the pathname, up to the locale step.
Resolve ==
    /\ pc = "entry"
    /\ ~NoPathname(pathname)
    /\ pathname' = ResolvePathname(pathname, normalizedPage, query)
    /\ reqUrlKeys' = ResolveReqUrl(pathname, normalizedPage, reqUrlKeys)
    /\ pc' = IF i18nProvider THEN "analyze" ELSE "dispatch"
    /\ UNCHANGED <<sendVars, htmlVars, manifestVars>>
    /\ UNCHANGED <<parsedUrl, normalizedPage, i18nProvider, query, bubbleNoFallback,
                   renderCalls, rendered, outcome>>

\* Lines 167-172: the awaited i18nProvider.analyze and what follows it.
Analyze ==
    /\ pc = "analyze"
    /\ query' = LocaleStep(pathname, query)
    /\ pc' = "dispatch"
    /\ UNCHANGED <<sendVars, htmlVars, manifestVars>>
    /\ UNCHANGED <<parsedUrl, normalizedPage, i18nProvider, reqUrlKeys, pathname,
                   bubbleNoFallback, renderCalls, rendered, outcome>>

\* Lines 174-181: the flag is read, stripped for API routes, and render is called.
Dispatch ==
    /\ pc = "dispatch"
    /\ bubbleNoFallback' = ReadBubbleNoFallback(query)
    /\ query' = StripBubbleFlag(pathname, query)
    /\ renderCalls' = Append(renderCalls, [pathname |-> pathname, query |-> query'])
    /\ pc' = "rendering"
    /\ UNCHANGED <<sendVars, htmlVars, manifestVars>>
    /\ UNCHANGED <<parsedUrl, normalizedPage, i18nProvider, reqUrlKeys, pathname,
                   rendered, outcome>>

\* Lines 181-185: the awaited render resolves.
RenderResolves ==
    /\ pc = "rendering"
    /\ rendered' = "resolved"
    /\ outcome' = [kind |-> "return", finished |-> TRUE, error |-> ""]
    /\ pc' = "done"
    /\ UNCHANGED <<sendVars, htmlVars, manifestVars>>
    /\ UNCHANGED <<parsedUrl, normalizedPage, i18nProvider, reqUrlKeys, pathname,
                   query, bubbleNoFallback, renderCalls>>

\* Lines 186-193: the awaited render rejects.
RenderRejects ==
    /\ pc = "rendering"
    /\ \E err \in {"NoFallbackError", "Error"} :
          /\ rendered' = err
          /\ outcome' = Caught(err, bubbleNoFallback)
          /\ pc' = AfterCatch(err, bubbleNoFallback)
    /\ UNCHANGED <<sendVars, htmlVars, manifestVars>>
    /\ UNCHANGED <<parsedUrl, normalizedPage, i18nProvider, reqUrlKeys, pathname,
                   query, bubbleNoFallback, renderCalls>>

Next ==
    \/ RejectPathname
    \/ Resolve
    \/ Analyze
    \/ Dispatch
    \/ RenderResolves
    \/ RenderRejects

----------------------------------------------------------------------------
(* sendRenderResult: values *)

MaxPayloadLen == 2     \* longest buffered payload, in characters
MaxChunks == 2         \* most chunks a dynamic result produces

\* The characters of a payload: one ASCII character, and one character of
\* each longer UTF-8 encoding; "emoji" lies outside the basic plane.
Chars == {"a", "e-acute", "euro", "emoji"}
Utf8Bytes(c) == CASE c = "a" -> 1 [] c = "e-acute" -> 2 [] c = "euro" -> 3 [] OTHER -> 4
Utf16Units(c) == IF c = "emoji" THEN 2 ELSE 1
CharCode(c) == CASE c = "a" -> 97 [] c = "e-acute" -> 233 [] c = "euro" -> 8364 [] OTHER -> 128512

Payloads == UNION { [1..n -> Chars] : n \in 0..MaxPayloadLen }

Listeners == {"cb1", "cb2"}

EmptyHeaders == [h \in {} |-> ""]
PriorHeaders == { EmptyHeaders, [h \in {"Content-Type"} |-> "text/plain"] }

\* options.result.contentType: "" is undefined
ContentTypes == {"", "text/x-component"}

SendOptions ==
    { o \in [type : {"html", "json"},
             generateEtags : BOOLEAN,
             poweredByHeader : BOOLEAN,
             contentType : ContentTypes,
             isDynamic : BOOLEAN,
             payload : Payloads,
             chunks : 0..MaxChunks] :
        IF o.isDynamic THEN o.payload = << >> ELSE o.chunks = 0 }

NoListenerCall == [op |-> "none", cb |-> "", held |-> ""]

NoWiring == [onFulfilled |-> FALSE, onRejected |-> FALSE, passesRejection |-> FALSE]

\* res.getHeader(name): "" is undefined
getHeader(hdrs, name) == IF name \in DOMAIN hdrs THEN hdrs[name] ELSE ""

\* res.setHeader(name, value)
setHeader(hdrs, name, value) ==
    [h \in (DOMAIN hdrs) \cup {name} |-> IF h = name THEN value ELSE hdrs[h]]

RECURSIVE setHeaders(_, _)
setHeaders(hdrs, writes) ==
    IF writes = << >> THEN hdrs
    ELSE setHeaders(setHeader(hdrs, Head(writes).name, Head(writes).value), Tail(writes))

LogEntry(op, name, value) == [op |-> op, name |-> name, value |-> value]

\* The res.setHeader calls of a sequence of header writes, as log entries.
HeaderLog(writes) == [i \in 1..Len(writes) |-> LogEntry("setHeader", writes[i].name, writes[i].value)]

\* payload.length: the number of UTF-16 code units
RECURSIVE StringLength(_)
StringLength(str) == IF str = << >> THEN 0 ELSE Utf16Units(Head(str)) + StringLength(Tail(str))

\* byteLength (./api-utils/web): the length of the UTF-8 encoding
RECURSIVE byteLength(_)
byteLength(str) == IF str = << >> THEN 0 ELSE Utf8Bytes(Head(str)) + byteLength(Tail(str))

\* generateETag (./lib/etag): a quoted hash of the payload followed by its length
RECURSIVE HashOf(_, _)
HashOf(str, h) ==
    IF str = << >> THEN h ELSE HashOf(Tail(str), ((h * 31) + CharCode(Head(str))) % 65536)
generateETag(payload) ==
    "\"" \o ToString(HashOf(payload, 7)) \o "-" \o ToString(StringLength(payload)) \o "\""

----------------------------------------------------------------------------
(* sendRenderResult *)

\* Lines 242-244 without the test of options.type.
PoweredByWritesAnyType(opts) ==
    IF opts.poweredByHeader
    THEN << [name |-> "X-Powered-By", value |-> "Next.js"] >>
    ELSE << >>

\* Lines 242-244
PoweredByWrites(opts) ==
    IF opts.poweredByHeader /\ opts.type = "html"
    THEN << [name |-> "X-Powered-By", value |-> "Next.js"] >>
    ELSE << >>

\* Lines 249-253
ContentTypeValue(opts) ==
    IF Truthy(opts.contentType) THEN opts.contentType
    ELSE IF opts.type = "json" THEN "application/json"
    ELSE "text/html; charset=utf-8"

\* Lines 246-255 without the test of the header that is already there.
ContentTypeWritesAlways(opts, hdrs) ==
    << [name |-> "Content-Type", value |-> ContentTypeValue(opts)] >>

\* Lines 246-255
ContentTypeWrites(opts, hdrs) ==
    IF ~Truthy(getHeader(hdrs, "Content-Type"))
    THEN << [name |-> "Content-Type", value |-> ContentTypeValue(opts)] >>
    ELSE << >>

\* Lines 238-255 with the marker header set after the other two.
HeaderWritesMarkerLast(opts, hdrs) ==
    PoweredByWrites(opts)
        \o ContentTypeWrites(opts, hdrs)
        \o << [name |-> "X-Edge-Runtime", value |-> "1"] >>

\* Lines 238-255: the header writes every call starts with, in order.
HeaderWrites(opts, hdrs) ==
    << [name |-> "X-Edge-Runtime", value |-> "1"] >>
        \o PoweredByWrites(opts)
        \o ContentTypeWrites(opts, hdrs)

\* Line 257 with both branches skipped: res.send() follows the first headers.
DeliveryPathSkipped(opts) == "send"

\* Line 257: the delivery path taken after the first headers.
DeliveryPath(opts) == IF opts.isDynamic THEN "stream" ELSE "buffer"

\* Line 282 with payload.length in place of byteLength(payload).
ContentLengthCodeUnits(payload) == ToString(StringLength(payload))

\* Line 282
ContentLengthValue(payload) == ToString(byteLength(payload))

\* Lines 282-285 without the test of options.generateEtags.
BufferedHeaderWritesAlwaysETag(opts, payload) ==
    << [name |-> "Content-Length", value |-> ContentLengthValue(payload)],
       [name |-> "ETag", value |-> generateETag(payload)] >>

\* Lines 282-285: the header writes of the buffered path, in order.
BufferedHeaderWrites(opts, payload) ==
    << [name |-> "Content-Length", value |-> ContentLengthValue(payload)] >>
        \o (IF opts.generateEtags
            THEN << [name |-> "ETag", value |-> generateETag(payload)] >>
            ELSE << >>)

\* Lines 282-286 with res.body called before the headers are set.
BufferedCallsBodyFirst(opts, payload) ==
    << LogEntry("body", "", "") >> \o HeaderLog(BufferedHeaderWrites(opts, payload))

\* Lines 282-286: the calls made on res by the buffered path, in order.
BufferedCalls(opts, payload) ==
    HeaderLog(BufferedHeaderWrites(opts, payload)) \o << LogEntry("body", "", "") >>

\* Line 286: the payload handed to res.body.
BodyPayload(payload) == payload

\* Line 278 as writer.closed.finally(onClose): onClose runs on both
\* settlements, and a rejection passes on to a promise nothing handles.
CloseWiringFinally == [onFulfilled |-> TRUE, onRejected |-> TRUE, passesRejection |-> TRUE]

\* Line 278: writer.closed.then(onClose, onClose) gives the promise a reaction
\* for fulfilment and one for rejection, and the rejection stops there.
CloseWiring == [onFulfilled |-> TRUE, onRejected |-> TRUE, passesRejection |-> FALSE]

\* The reaction job that settling writer.closed queues under a wiring.
JobOnSettle(w, state) ==
    IF (state = "fulfilled" /\ w.onFulfilled) \/ (state = "rejected" /\ w.onRejected)
    THEN "onClose" ELSE "none"

\* A rejection of writer.closed that no reaction takes is unhandled.
UnhandledOnSettle(w, state) == state = "rejected" /\ ~w.onRejected

InitSend ==
    /\ spc = "entry"
    /\ options \in SendOptions
    /\ headers \in PriorHeaders
    /\ resLog = << >>
    /\ resBody = << >>
    /\ sent = 0
    /\ writer = "none"
    /\ closed = "pending"
    /\ wiring = NoWiring
    /\ job = "none"
    /\ innerClose = ""
    /\ producer = "idle"
    /\ chunksWritten = 0
    /\ closeCalls = [cb \in Listeners |-> 0]
    /\ onCloseRuns = 0
    /\ notified = ""
    /\ unhandled = FALSE
    /\ callBeforeClose = NoListenerCall

streamVars == <<writer, closed, wiring, job, innerClose, producer, chunksWritten,
                closeCalls, onCloseRuns, notified, unhandled, callBeforeClose>>

\* Lines 238-257
SetHeaders ==
    /\ spc = "entry"
    /\ headers' = setHeaders(headers, HeaderWrites(options, headers))
    /\ resLog' = resLog \o HeaderLog(HeaderWrites(options, headers))
    /\ spc' = DeliveryPath(options)
    /\ UNCHANGED <<catchallVars, htmlVars, manifestVars>>
    /\ UNCHANGED <<options, resBody, sent, streamVars>>

\* Lines 258-279: the writer is taken, the close reactions are attached and
\* the producer is started; its promise is not awaited.
StartStream ==
    /\ spc = "stream"
    /\ writer' = "open"
    /\ wiring' = CloseWiring
    /\ producer' = "running"
    /\ spc' = "send"
    /\ UNCHANGED callBeforeClose
    /\ UNCHANGED <<catchallVars, htmlVars, manifestVars>>
    /\ UNCHANGED <<options, headers, resLog, resBody, sent, closed, job, innerClose,
                   chunksWritten, closeCalls, onCloseRuns, notified, unhandled>>

\* Lines 281-286: the awaited payload arrives and is written.
WriteBuffered ==
    /\ spc = "buffer"
    /\ headers' = setHeaders(headers, BufferedHeaderWrites(options, options.payload))
    /\ resBody' = BodyPayload(options.payload)
    /\ resLog' = resLog \o BufferedCalls(options, options.payload)
    /\ spc' = "send"
    /\ UNCHANGED <<catchallVars, htmlVars, manifestVars>>
    /\ UNCHANGED <<options, sent, streamVars>>

\* Line 289
Send ==
    /\ spc = "send"
    /\ sent' = sent + 1
    /\ resLog' = Append(resLog, LogEntry("send", "", ""))
    /\ spc' = "returned"
    /\ UNCHANGED <<catchallVars, htmlVars, manifestVars>>
    /\ UNCHANGED <<options, headers, resBody, streamVars>>

\* Line 262: the producer writes a chunk through target.write.
TargetWrite ==
    /\ spc = "returned"
    /\ producer = "running"
    /\ writer = "open"
    /\ chunksWritten < options.chunks
    /\ chunksWritten' = chunksWritten + 1
    /\ resLog' = Append(resLog, LogEntry("write", "", ""))
    /\ UNCHANGED callBeforeClose
    /\ UNCHANGED <<catchallVars, htmlVars, manifestVars>>
    /\ UNCHANGED <<spc, options, headers, resBody, sent, writer, closed, wiring, job,
                   innerClose, producer, closeCalls, onCloseRuns, notified, unhandled>>

\* Line 263: the producer has no more chunks and calls target.end; the writer
\* closes and writer.closed fulfils.
TargetEnd ==
    /\ spc = "returned"
    /\ producer = "running"
    /\ writer = "open"
    /\ chunksWritten = options.chunks
    /\ writer' = "closed"
    /\ closed' = "fulfilled"
    /\ job' = JobOnSettle(wiring, "fulfilled")
    /\ unhandled' = (unhandled \/ UnhandledOnSettle(wiring, "fulfilled"))
    /\ producer' = "done"
    /\ UNCHANGED callBeforeClose
    /\ UNCHANGED <<catchallVars, htmlVars, manifestVars>>
    /\ UNCHANGED <<spc, options, headers, resLog, resBody, sent, wiring, innerClose,
                   chunksWritten, closeCalls, onCloseRuns, notified>>

\* Lines 265-267 with the first listener kept when one is already held.
target_on_keeping(inner, cb) == IF inner = "" THEN cb ELSE inner

\* Lines 265-267: target.on('close', cb), on `innerClose`
target_on(inner, cb) == cb

\* Lines 268-270 with only the listener that is passed removed.
target_off_matching(inner, cb) == IF inner = cb THEN "" ELSE inner

\* Lines 268-270: target.off('close', cb), on `innerClose`
target_off(inner, cb) == ""

\* The on/off call that onClose will find to be the last one before it.
ListenerCall(op, cb) ==
    IF onCloseRuns = 0 THEN [op |-> op, cb |-> cb, held |-> innerClose] ELSE callBeforeClose

\* Lines 265-267: the producer calls target.on('close', cb).
TargetOn ==
    /\ spc = "returned"
    /\ producer = "running"
    /\ \E cb \in Listeners :
          /\ innerClose' = target_on(innerClose, cb)
          /\ callBeforeClose' = ListenerCall("on", cb)
    /\ UNCHANGED <<catchallVars, htmlVars, manifestVars>>
    /\ UNCHANGED <<spc, options, headers, resLog, resBody, sent, writer, closed, wiring,
                   job, producer, chunksWritten, closeCalls, onCloseRuns, notified,
                   unhandled>>

\* Lines 268-270: the producer calls target.off('close', cb).
TargetOff ==
    /\ spc = "returned"
    /\ producer # "idle"
    /\ \E cb \in Listeners :
          /\ innerClose' = target_off(innerClose, cb)
          /\ callBeforeClose' = ListenerCall("off", cb)
    /\ UNCHANGED <<catchallVars, htmlVars, manifestVars>>
    /\ UNCHANGED <<spc, options, headers, resLog, resBody, sent, writer, closed, wiring,
                   job, producer, chunksWritten, closeCalls, onCloseRuns, notified,
                   unhandled>>

\* The consumer of the response body cancels it: the writable side errors and
\* writer.closed rejects.
ConsumerCancels ==
    /\ spc = "returned"
    /\ writer = "open"
    /\ writer' = "errored"
    /\ closed' = "rejected"
    /\ job' = JobOnSettle(wiring, "rejected")
    /\ unhandled' = (unhandled \/ UnhandledOnSettle(wiring, "rejected"))
    /\ UNCHANGED callBeforeClose
    /\ UNCHANGED <<catchallVars, htmlVars, manifestVars>>
    /\ UNCHANGED <<spc, options, headers, resLog, resBody, sent, wiring, innerClose,
                   producer, chunksWritten, closeCalls, onCloseRuns, notified>>

\* Lines 272-274: the reaction job runs onClose, which calls the registered
\* listener if there is one.
RunOnClose ==
    /\ job = "onClose"
    /\ job' = "none"
    /\ onCloseRuns' = onCloseRuns + 1
    /\ notified' = innerClose
    /\ closeCalls' = IF innerClose # ""
                     THEN [closeCalls EXCEPT ![innerClose] = @ + 1]
                     ELSE closeCalls
    /\ unhandled' = (unhandled \/ (wiring.passesRejection /\ closed = "rejected"))
    /\ UNCHANGED callBeforeClose
    /\ UNCHANGED <<catchallVars, htmlVars, manifestVars>>
    /\ UNCHANGED <<spc, options, headers, resLog, resBody, sent, writer, closed, wiring,
                   innerClose, producer, chunksWritten>>

\* The producer finds the sink no longer writable and stops.
ProducerStops ==
    /\ spc = "returned"
    /\ producer = "running"
    /\ writer # "open"
    /\ producer' = "stopped"
    /\ UNCHANGED callBeforeClose
    /\ UNCHANGED <<catchallVars, htmlVars, manifestVars>>
    /\ UNCHANGED <<spc, options, headers, resLog, resBody, sent, writer, closed, wiring,
                   job, innerClose, chunksWritten, closeCalls, onCloseRuns, notified,
                   unhandled>>

NextSend ==
    \/ SetHeaders
    \/ StartStream
    \/ WriteBuffered
    \/ Send
    \/ TargetWrite
    \/ TargetEnd
    \/ TargetOn
    \/ TargetOff
    \/ ConsumerCancels
    \/ RunOnClose
    \/ ProducerStops

----------------------------------------------------------------------------
(* renderHTML *)

HtmlPathnames ==
    { <<"/", "not-found">>,
      <<"/", "_not-found">>,
      <<"/", "404">>,
      <<"/">>,
      <<"/", "about">>,
      <<"/", "not-found", "/">>,
      <<"/", "blog", "/", "not-found">> }

RenderOptsValues ==
    [dev : BOOLEAN,
     disableOptimizedLoading : BOOLEAN,
     runtime : {"nodejs", "experimental-edge"}]

\* Line 212 with the production marker in both modes.
NotFoundMarkerProduction(dev) == <<"/", "_not-found">>

\* Line 212: renderOpts.dev ? '/not-found' : '/_not-found'
NotFoundMarker(dev) == IF dev THEN <<"/", "not-found">> ELSE <<"/", "_not-found">>

\* Lines 212-214: the pathname handed to renderToHTML.
RenderedPathname(p, opts) == IF p = NotFoundMarker(opts.dev) THEN <<"/", "404">> ELSE p

\* Lines 220-223: Object.assign(renderOpts, {...})
AssignRenderOpts(opts) ==
    [opts EXCEPT !.disableOptimizedLoading = TRUE, !.runtime = "experimental-edge"]

InitRenderHTML ==
    /\ hpc = "entry"
    /\ renderToHTML \in BOOLEAN
    /\ htmlArgs \in [pathname : HtmlPathnames, query : EntryQueries]
    /\ renderOpts \in RenderOptsValues
    /\ renderToHTMLCalls = << >>
    /\ htmlOutcome = "pending"

\* Lines 203-208: no renderToHTML is configured.
RenderHTMLThrows ==
    /\ hpc = "entry"
    /\ ~renderToHTML
    /\ htmlOutcome' = "Invariant: routeModule should be configured when rendering pages"
    /\ hpc' = "done"
    /\ UNCHANGED <<renderToHTML, htmlArgs, renderOpts, renderToHTMLCalls>>
    /\ UNCHANGED <<catchallVars, sendVars, manifestVars>>

\* Lines 210-224: the pathname is rewritten if it is the not-found marker and
\* renderToHTML is called.
RenderHTMLCalls ==
    /\ hpc = "entry"
    /\ renderToHTML
    /\ renderOpts' = AssignRenderOpts(renderOpts)
    /\ renderToHTMLCalls' =
          Append(renderToHTMLCalls,
                 [pathname |-> RenderedPathname(htmlArgs.pathname, renderOpts),
                  query |-> htmlArgs.query,
                  renderOpts |-> renderOpts'])
    /\ htmlOutcome' = "returned"
    /\ hpc' = "done"
    /\ UNCHANGED <<renderToHTML, htmlArgs>>
    /\ UNCHANGED <<catchallVars, sendVars, manifestVars>>

NextRenderHTML ==
    \/ RenderHTMLThrows
    \/ RenderHTMLCalls

----------------------------------------------------------------------------
(* getPrerenderManifest *)

\* Lines 117-125: the manifest made up when none is used.
DevelopmentManifest ==
    [version |-> -1,
     routes |-> {},
     dynamicRoutes |-> {},
     notFoundRoutes |-> << >>,
     previewModeId |-> "development-id"]

\* Manifests a build can supply.
BuiltManifests ==
    [version : {3, 4},
     routes : SUBSET {"/", "/about"},
     dynamicRoutes : SUBSET {"/blog/[slug]"},
     notFoundRoutes : {<< >>, <<"/gone">>},
     previewModeId : {"preview-a", "preview-b"}]

\* webServerConfig.prerenderManifest: PrerenderManifest | undefined
ConfiguredManifests ==
    { [defined |-> FALSE, value |-> DevelopmentManifest] }
        \cup { [defined |-> TRUE, value |-> mf] : mf \in BuiltManifests }

\* Line 116 without the test of renderOpts.dev.
MakesUpManifestOnlyWhenMissing(dev, manifest) == ~manifest.defined

\* Line 116: this.renderOpts?.dev || !prerenderManifest
MakesUpManifest(dev, manifest) == dev \/ ~manifest.defined

\* Lines 114-128
ManifestReturned(dev, manifest) ==
    IF MakesUpManifest(dev, manifest)
    THEN [defined |-> TRUE, value |-> DevelopmentManifest]
    ELSE manifest

InitManifest ==
    /\ mpc = "entry"
    /\ serverDev \in BOOLEAN
    /\ prerenderManifest \in ConfiguredManifests
    /\ manifestResult = [defined |-> FALSE, value |-> DevelopmentManifest]

\* Lines 114-128
GetPrerenderManifest ==
    /\ mpc = "entry"
    /\ manifestResult' = ManifestReturned(serverDev, prerenderManifest)
    /\ mpc' = "done"
    /\ UNCHANGED <<serverDev, prerenderManifest>>
    /\ UNCHANGED <<catchallVars, sendVars, htmlVars>>

NextManifest ==
    \/ GetPrerenderManifest

----------------------------------------------------------------------------
(* Specifications *)

\* While one operation is explored the other is not running.
CatchallOff ==
    /\ pc = "off"
    /\ parsedUrl = [pathname |-> <<"/">>, query |-> [k \in {} |-> ""]]
    /\ normalizedPage = <<"/">>
    /\ i18nProvider = FALSE
    /\ reqUrlKeys = {}
    /\ pathname = <<"/">>
    /\ query = [k \in {} |-> ""]
    /\ bubbleNoFallback = FALSE
    /\ renderCalls = << >>
    /\ rendered = "none"
    /\ outcome = NoOutcome

SendOff ==
    /\ spc = "off"
    /\ options = [type |-> "html", generateEtags |-> FALSE, poweredByHeader |-> FALSE,
                  contentType |-> "", isDynamic |-> FALSE, payload |-> << >>, chunks |-> 0]
    /\ headers = EmptyHeaders
    /\ resLog = << >>
    /\ resBody = << >>
    /\ sent = 0
    /\ writer = "none"
    /\ closed = "pending"
    /\ wiring = NoWiring
    /\ job = "none"
    /\ innerClose = ""
    /\ producer = "idle"
    /\ chunksWritten = 0
    /\ closeCalls = [cb \in Listeners |-> 0]
    /\ onCloseRuns = 0
    /\ notified = ""
    /\ unhandled = FALSE
    /\ callBeforeClose = NoListenerCall

RenderHTMLOff ==
    /\ hpc = "off"
    /\ renderToHTML = FALSE
    /\ htmlArgs = [pathname |-> <<"/">>, query |-> [k \in {} |-> ""]]
    /\ renderOpts = [dev |-> FALSE, disableOptimizedLoading |-> FALSE, runtime |-> "nodejs"]
    /\ renderToHTMLCalls = << >>
    /\ htmlOutcome = "pending"

ManifestOff ==
    /\ mpc = "off"
    /\ serverDev = FALSE
    /\ prerenderManifest = [defined |-> FALSE, value |-> DevelopmentManifest]
    /\ manifestResult = [defined |-> FALSE, value |-> DevelopmentManifest]

\* handleCatchallRenderRequest
Init == InitCatchall /\ SendOff /\ RenderHTMLOff /\ ManifestOff

Spec == Init /\ [][Next]_vars

\* sendRenderResult
InitSendSpec == CatchallOff /\ InitSend /\ RenderHTMLOff /\ ManifestOff

SpecSend == InitSendSpec /\ [][NextSend]_vars

\* renderHTML
InitRenderHTMLSpec == CatchallOff /\ SendOff /\ InitRenderHTML /\ ManifestOff

SpecRenderHTML == InitRenderHTMLSpec /\ [][NextRenderHTML]_vars

\* getPrerenderManifest
InitManifestSpec == CatchallOff /\ SendOff /\ RenderHTMLOff /\ InitManifest

SpecManifest == InitManifestSpec /\ [][NextManifest]_vars

----------------------------------------------------------------------------
(* Properties of handleCatchallRenderRequest, checked under Spec *)

FlagPresentOnEntry == BubbleKey \in DOMAIN parsedUrl.query
FlagSetOnEntry == FlagPresentOnEntry /\ parsedUrl.query[BubbleKey] # ""
Bubbled == outcome.kind = "return" /\ ~outcome.finished
NoTrailingSlash(p) == p = <<"/">> \/ (p # << >> /\ p[Len(p)] # "/")

\* C1: when the render raises NoFallbackError, the call returns
\* {finished: false} and raises nothing if the flag was truthy on entry, and
\* raises that same error if it was not.
C1_BubbleFollowsFlag ==
    (pc = "done" /\ rendered = "NoFallbackError") =>
        IF FlagSetOnEntry
        THEN outcome = [kind |-> "return", finished |-> FALSE, error |-> ""]
        ELSE outcome = [kind |-> "throw", finished |-> FALSE, error |-> "NoFallbackError"]

C1_Witness ==
    /\ pc = "done"
    /\ rendered = "NoFallbackError"
    /\ FlagSetOnEntry
    /\ Bubbled

C3_APIRoutesNeverBubble ==
    (pc = "done" /\ rendered = "NoFallbackError" /\ isAPIRoute(pathname)) => ~Bubbled

\* C4: the pathname passed to the render call has no trailing slash (except
\* the root) and, when the configured route pathname is dynamic, no [param]
\* segment is left in it.
C4_RenderedPathnameResolved ==
    \A i \in 1..Len(renderCalls) :
        /\ NoTrailingSlash(renderCalls[i].pathname)
        /\ isDynamicRoute(normalizedPage) => ~isDynamicRoute(renderCalls[i].pathname)

\* C5: a non-root incoming pathname that ends in a slash is rendered under
\* the same pathname as the incoming pathname without that slash, for the
\* same route and query.
C5_TrailingSlashIrrelevant ==
    LET p == parsedUrl.pathname
    IN  (/\ Len(renderCalls) >= 1
         /\ Len(p) >= 2
         /\ p[Len(p)] = "/")
        => renderCalls[1].pathname
              = ResolvePathname(SubSeq(p, 1, Len(p) - 1), normalizedPage, parsedUrl.query)

\* C6: with a locale provider, a locale detected in the resolved pathname is
\* stripped from the rendered pathname and recorded in the query as
\* __nextLocale; with none detected the locale step changes neither.
C6_LocaleStrippedAndRecorded ==
    (i18nProvider /\ Len(renderCalls) >= 1) =>
        LET resolved == ResolvePathname(parsedUrl.pathname, normalizedPage, parsedUrl.query)
            found    == analyze(resolved)
            call     == renderCalls[1]
        IN  IF found.detectedLocale # ""
            THEN /\ call.pathname = found.pathname
                 /\ LocaleKey \in DOMAIN call.query
                 /\ call.query[LocaleKey] = found.detectedLocale
            ELSE /\ call.pathname = resolved
                 /\ LocaleKey \notin DOMAIN call.query

\* C12: an error of the render that is not a NoFallbackError leaves the call
\* as that same error, whether or not the flag was set; it never becomes a
\* result.
C12_OtherErrorsPropagate ==
    (pc = "done" /\ rendered = "Error") =>
        outcome = [kind |-> "throw", finished |-> FALSE, error |-> "Error"]

C12_Witness ==
    /\ pc = "done"
    /\ rendered = "Error"
    /\ FlagSetOnEntry
    /\ outcome.kind = "throw"
    /\ outcome.error = "Error"

\* C13: with an empty or undefined pathname the call fails at once with the
\* input error: the render is never invoked, the query is never modified and
\* nothing is returned.
C13_MissingPathnameFails ==
    (parsedUrl.pathname = Undefined \/ parsedUrl.pathname = << >>) =>
        /\ pc \in {"entry", "done"}
        /\ renderCalls = << >>
        /\ rendered = "none"
        /\ query = parsedUrl.query
        /\ outcome.kind # "return"
        /\ pc = "done" =>
              outcome = [kind |-> "throw", finished |-> FALSE,
                         error |-> "pathname is undefined"]

C13_Witness ==
    /\ parsedUrl.pathname = << >>
    /\ pc = "done"
    /\ outcome.kind = "throw"
    /\ outcome.error = "pathname is undefined"

\* C19: for a non-empty pathname the render is invoked exactly once and the
\* call ends in exactly one of: finished true, finished false, an error of
\* the render; the render is never invoked a second time.
C19_RenderOnceOneOutcome ==
    /\ Len(renderCalls) <= 1
    /\ pc # "done" => outcome = NoOutcome
    /\ (pc = "done" /\ parsedUrl.pathname # Undefined /\ parsedUrl.pathname # << >>) =>
          /\ Len(renderCalls) = 1
          /\ \/ rendered = "resolved" /\ outcome.kind = "return" /\ outcome.finished
             \/ rendered = "NoFallbackError" /\ outcome.kind = "return" /\ ~outcome.finished
             \/ rendered \in {"NoFallbackError", "Error"}
                   /\ outcome.kind = "throw" /\ outcome.error = rendered

C19_Witness ==
    /\ pc = "done"
    /\ Len(renderCalls) = 1
    /\ rendered = "NoFallbackError"
    /\ Bubbled

----------------------------------------------------------------------------
(* Properties of sendRenderResult, checked under SpecSend *)

BodyWritten == \E i \in 1..Len(resLog) : resLog[i].op = "body"
TotalCloseCalls == closeCalls["cb1"] + closeCalls["cb2"]

\* C7: on the streaming path the settling of writer.closed, by fulfilment or
\* by rejection, runs onClose exactly once; a listener registered at that
\* moment is invoked exactly once and no other listener is; before the
\* settling no listener is invoked; and no rejection is left unhandled.
C7_CloseListenerOnce ==
    /\ ~unhandled
    /\ closed = "pending" => (onCloseRuns = 0 /\ TotalCloseCalls = 0)
    /\ (closed # "pending" /\ job = "none") =>
          /\ onCloseRuns = 1
          /\ IF notified # ""
             THEN closeCalls[notified] = 1 /\ TotalCloseCalls = 1
             ELSE TotalCloseCalls = 0
    /\ (closed # "pending" /\ job # "none") => (onCloseRuns = 0 /\ TotalCloseCalls = 0)

C7_Witness ==
    /\ closed = "rejected"
    /\ chunksWritten < options.chunks
    /\ job = "none"
    /\ notified = "cb1"
    /\ closeCalls["cb1"] = 1

\* C8 as stated: res.send happens only after the delivery path has
\* completed: after the body is written on the buffered path, and after the
\* producer has finished and the sink is closed on the streaming path.
C8_SendAfterDeliveryCompletes ==
    sent >= 1 =>
        IF options.isDynamic
        THEN producer = "done" /\ writer = "closed"
        ELSE BodyWritten /\ resBody = options.payload

\* C8, amended: res.send happens only after the chosen branch has run: after
\* the body is written on the buffered path, and on the streaming path once
\* the close reactions are attached and the producer has been started, with
\* no wait for the producer to finish or the sink to close.
C8_SendAfterBranch ==
    sent >= 1 =>
        IF options.isDynamic
        THEN writer # "none" /\ wiring # NoWiring /\ producer # "idle"
        ELSE BodyWritten /\ resBody = options.payload

C8_Witness ==
    /\ sent = 1
    /\ options.isDynamic
    /\ producer = "running"
    /\ writer = "open"
    /\ chunksWritten < options.chunks

\* C9: on the buffered path the Content-Length header is the decimal byte
\* length of the payload, and the body written is that payload.
C9_ContentLengthIsByteLength ==
    BodyWritten =>
        /\ resBody = options.payload
        /\ "Content-Length" \in DOMAIN headers
        /\ headers["Content-Length"] = ToString(byteLength(resBody))

C9_Witness ==
    /\ BodyWritten
    /\ resBody = <<"euro", "emoji">>
    /\ headers["Content-Length"] = "7"
    /\ StringLength(resBody) = 3

HeaderWritten(name) ==
    \E i \in 1..Len(resLog) : resLog[i].op = "setHeader" /\ resLog[i].name = name

\* C15: every execution sets X-Edge-Runtime to 1, and does so before any
\* other header write of the call.
C15_MarkerHeaderFirst ==
    spc \notin {"off", "entry"} =>
        /\ Len(resLog) >= 1
        /\ resLog[1] = LogEntry("setHeader", "X-Edge-Runtime", "1")
        /\ "X-Edge-Runtime" \in DOMAIN headers
        /\ headers["X-Edge-Runtime"] = "1"

C15_Witness ==
    /\ spc = "returned"
    /\ resLog[1].name = "X-Edge-Runtime"
    /\ HeaderWritten("X-Powered-By")
    /\ HeaderWritten("Content-Type")
    /\ HeaderWritten("Content-Length")
    /\ HeaderWritten("ETag")

\* C16: the call sets X-Powered-By if and only if poweredByHeader is true
\* and the type is html.
C16_PoweredByOnlyForHtml ==
    spc \notin {"off", "entry"} =>
        (HeaderWritten("X-Powered-By") <=> (options.poweredByHeader /\ options.type = "html"))

C16_Witness ==
    /\ spc = "returned"
    /\ options.poweredByHeader
    /\ options.type = "json"
    /\ ~HeaderWritten("X-Powered-By")

\* C17: the call sets ETag if and only if the result is buffered and
\* generateEtags is true; on the streaming path it sets neither ETag nor
\* Content-Length.
C17_ETagOnlyWhenBuffered ==
    /\ HeaderWritten("ETag") => (~options.isDynamic /\ options.generateEtags)
    /\ spc \in {"send", "returned"} =>
          (HeaderWritten("ETag") <=> (~options.isDynamic /\ options.generateEtags))
    /\ options.isDynamic => (~HeaderWritten("ETag") /\ ~HeaderWritten("Content-Length"))

C17_Witness ==
    /\ spc = "returned"
    /\ options.isDynamic
    /\ options.generateEtags
    /\ chunksWritten >= 1
    /\ ~HeaderWritten("ETag")
    /\ ~HeaderWritten("Content-Length")

\* C18: within one execution every header write comes before the first body
\* write (res.body or a streamed chunk) and before res.send, and res.send is
\* called exactly once on either path.
C18_HeadersBeforeBodyAndSend ==
    /\ \A i, j \in 1..Len(resLog) :
          (i < j /\ resLog[i].op \in {"body", "write", "send"}) => resLog[j].op # "setHeader"
    /\ Cardinality({ i \in 1..Len(resLog) : resLog[i].op = "send" }) = sent
    /\ sent <= 1
    /\ spc = "returned" => sent = 1

C18_Witness ==
    /\ spc = "returned"
    /\ options.isDynamic
    /\ chunksWritten >= 1
    /\ sent = 1

\* C20: the sink holds at most one close listener: when writer.closed settles,
\* the listener of the last target.on call is the only one invoked if that
\* call was the last on/off call, and none is invoked if the last call was a
\* target.off, whatever callback it was given.
C20_LastListenerCallDecides ==
    /\ TotalCloseCalls <= 1
    /\ onCloseRuns = 0 => TotalCloseCalls = 0
    /\ onCloseRuns >= 1 =>
          IF callBeforeClose.op = "on"
          THEN closeCalls[callBeforeClose.cb] = 1 /\ TotalCloseCalls = 1
          ELSE TotalCloseCalls = 0

C20_Witness ==
    /\ onCloseRuns = 1
    /\ callBeforeClose = [op |-> "off", cb |-> "cb2", held |-> "cb1"]
    /\ TotalCloseCalls = 0

C20_WitnessReplaced ==
    /\ onCloseRuns = 1
    /\ callBeforeClose = [op |-> "on", cb |-> "cb2", held |-> "cb1"]
    /\ closeCalls["cb2"] = 1
    /\ closeCalls["cb1"] = 0

----------------------------------------------------------------------------
(* Properties of renderHTML, checked under SpecRenderHTML *)

----------------------------------------------------------------------------
(* Properties of getPrerenderManifest, checked under SpecManifest *)

\* C14 as stated: the call returns the made-up manifest when no prerender
\* manifest was supplied and the supplied manifest, unchanged, when one was;
\* it never returns undefined.
C14_SuppliedManifestReturned ==
    mpc = "done" =>
        /\ manifestResult.defined
        /\ manifestResult.value =
              IF prerenderManifest.defined THEN prerenderManifest.value
              ELSE [version |-> -1, routes |-> {}, dynamicRoutes |-> {},
                    notFoundRoutes |-> << >>, previewModeId |-> "development-id"]

\* C14, amended: the call returns the made-up manifest when renderOpts.dev is
\* set or no prerender manifest was supplied, and the supplied manifest,
\* unchanged, when dev is unset and one was supplied; it never returns
\* undefined.
C14_ManifestUnlessDevOrMissing ==
    mpc = "done" =>
        /\ manifestResult.defined
        /\ manifestResult.value =
              IF ~serverDev /\ prerenderManifest.defined THEN prerenderManifest.value
              ELSE [version |-> -1, routes |-> {}, dynamicRoutes |-> {},
                    notFoundRoutes |-> << >>, previewModeId |-> "development-id"]

C14_Witness ==
    /\ mpc = "done"
    /\ serverDev
    /\ prerenderManifest.defined
    /\ manifestResult.value.version = -1
    /\ manifestResult.value.previewModeId = "development-id"

====
